---- MODULE Spec2Model ----
\* A model of charrain.c: the packed cell codec, the bounds-checked grid
\* accessors, drop placement, the per-column advance, the per-tick update,
\* and the driver loop of main() with its signal flags.
EXTENDS Integers, Naturals, Sequences, FiniteSets, TLC

\* ---------------------------------------------------------------------
\* Program constants (charrain.c)
\* ---------------------------------------------------------------------
STATE_NONE == 0
STATE_DROP == 1
STATE_TAIL == 2
TSIZE_MIN == 8
TSIZE_MAX == 63
ASCII_MIN == 32
ASCII_MAX == 126
\* sizeof(colors) / sizeof(colors[0]) with colors[] = { 231, 48, 41, 35, 29, 238 }
NUM_COLORS == 6
\* cap_float(&opts.drops, DROPS_FACTOR_MIN, DROPS_FACTOR_MAX), in percent
DROPS_FACTOR_MIN == 1
DROPS_FACTOR_MAX == 10

\* ---------------------------------------------------------------------
\* Bounds of the model
\* ---------------------------------------------------------------------
\* The terminal sizes of the model are MaxRows x MaxCols, the sizes without
\* rows or without columns, and (TickSizes) two grids of 10 cells, the
\* smallest on which cols * rows * drop_ratio reaches 1 with drop_ratio <= 0.10.
MaxRows == 2
MaxCols == 2
\* size_t is modelled as a SizeBits-bit unsigned word (64 bits in the build,
\* more than an integer of TLC holds); all arithmetic on
\* drop_count and the spawn counters wraps modulo 2^SizeBits.
SizeBits == 3
SIZE_MOD == 2 ^ SizeBits
\* float is modelled with FloatBits bits of significand (24 in the build):
\* as in the build, a size_t just below 2^SizeBits converts to 2^SizeBits.
FloatBits == SizeBits - 1
\* number of spawn attempts of one tick whose draws are enumerated freely;
\* the attempts after them repeat the last draw
MaxPicks == 2

Min(a, b) == IF a < b THEN a ELSE b

\* ---------------------------------------------------------------------
\* Cell codec: TSIZE (6 bits) | STATE (2 bits) | ASCII (8 bits)
\* ---------------------------------------------------------------------
\* (BITMASK_TSIZE & (tsize << 10)) | (BITMASK_STATE & (state << 8)) | ascii
\* with uint8_t arguments; the three fields do not overlap, so | is +.
val_new(ascii, state, tsize) ==
    (((tsize % 256) % 64) * 1024) + (((state % 256) % 4) * 256) + (ascii % 256)

val_get_ascii(value) == value % 256

val_get_state(value) == (value \div 256) % 4

\* val_get_tsize with a mask of five bits
val_get_tsize_narrow(value) == (value \div 1024) % 32

val_get_tsize(value) == (value \div 1024) % 64

\* ---------------------------------------------------------------------
\* Grid: mat = [data, null, rows, cols, drop_count, drop_ratio]
\*   data       the cells, row-major; data[i + 1] is the C data[i]
\*   null       TRUE when the C pointer mat->data is NULL
\*   drop_ratio the desired ratio of drops, in percent
\* ---------------------------------------------------------------------
\* mat_idx for a buffer laid out column by column
mat_idx_colmajor(m, row, col) == col * m.rows + row

mat_idx(m, row, col) == row * m.cols + col

\* TRUE when data[idx] lies inside the cells of the grid
InBuf(m, idx) == idx >= 0 /\ idx < Len(m.data)

\* The guards of mat_get_value / mat_set_value: only the upper limits are
\* tested, with int operands.
Guarded(m, row, col) == row >= m.rows \/ col >= m.cols

mat_get_value(m, row, col) ==
    IF row >= m.rows THEN 0
    ELSE IF col >= m.cols THEN 0
    ELSE m.data[mat_idx(m, row, col) + 1]

mat_get_ascii(m, row, col) == val_get_ascii(mat_get_value(m, row, col))
mat_get_state(m, row, col) == val_get_state(mat_get_value(m, row, col))
mat_get_tsize(m, row, col) == val_get_tsize(mat_get_value(m, row, col))

mat_set_value(m, row, col, value) ==
    IF row >= m.rows THEN m
    ELSE IF col >= m.cols THEN m
    ELSE [m EXCEPT !.data[mat_idx(m, row, col) + 1] = value]

\* mat_set_ascii writing a fresh cell: the state and the tsize are not kept
mat_set_ascii_fresh(m, row, col, ascii) ==
    mat_set_value(m, row, col, val_new(ascii, STATE_NONE, 0))

mat_set_ascii(m, row, col, ascii) ==
    LET value == mat_get_value(m, row, col)
    IN  mat_set_value(m, row, col,
            val_new(ascii, val_get_state(value), val_get_tsize(value)))

\* mat_set_state without the reset of tsize for STATE_NONE
mat_set_state_keep(m, row, col, state) ==
    LET value == mat_get_value(m, row, col)
    IN  mat_set_value(m, row, col,
            val_new(val_get_ascii(value), state, val_get_tsize(value)))

mat_set_state(m, row, col, state) ==
    LET value == mat_get_value(m, row, col)
        tsize == IF state = STATE_NONE THEN 0 ELSE val_get_tsize(value)
    IN  mat_set_value(m, row, col, val_new(val_get_ascii(value), state, tsize))

mat_set_tsize(m, row, col, tsize) ==
    LET value == mat_get_value(m, row, col)
    IN  mat_set_value(m, row, col,
            val_new(val_get_ascii(value), val_get_state(value), tsize))

\* ---------------------------------------------------------------------
\* Random draws: rand() is an input; each use names the raw values drawn.
\* ---------------------------------------------------------------------
rand_int(min, max, r) == min + (r % ((max + 1) - min))

rand_int_mincap(min, max, r) ==
    LET x == r % max IN IF x < min THEN min ELSE x

rand_ascii(r) == rand_int_mincap(ASCII_MIN, ASCII_MAX, r)

\* raw rand() values used for a tail length: 8 + r % 56 gives 8 and 63
TsizeDraws == {0, 55}
\* raw rand() values used for a character: 7 gives 32 (capped), 125 gives 125
AsciiDraws == {7, 125}

\* ---------------------------------------------------------------------
\* Drop placement
\* ---------------------------------------------------------------------
mat_put_cell_drop(m, row, col, tsize) ==
    mat_set_tsize(mat_set_state(m, row, col, STATE_DROP), row, col, tsize)

\* ceil((NUM_COLORS-1) * ((float) tnext / (float) tsize)); the float result
\* equals the exact ceiling for every 1 <= tnext <= tsize <= 63.
tail_color(tsize, tnext) == ((NUM_COLORS - 1) * tnext + (tsize - 1)) \div tsize

\* mat_put_cell_tail storing the tail length instead of the colour
mat_put_cell_tail_len(m, row, col, tsize, tnext) ==
    mat_set_tsize(mat_set_state(m, row, col, STATE_TAIL), row, col, tsize)

mat_put_cell_tail(m, row, col, tsize, tnext) ==
    mat_set_tsize(mat_set_state(m, row, col, STATE_TAIL), row, col,
                  tail_color(tsize, tnext))

\* the loop of mat_add_drop with i < tsize as its condition
RECURSIVE add_drop_loop_short(_, _, _, _, _)
add_drop_loop_short(m, row, col, tsize, i) ==
    IF i >= tsize THEN m
    ELSE IF row < 0 THEN m
    ELSE IF row >= m.rows THEN add_drop_loop_short(m, row - 1, col, tsize, i + 1)
    ELSE IF i = 0
         THEN add_drop_loop_short(
                 [mat_put_cell_drop(m, row, col, tsize)
                    EXCEPT !.drop_count = (m.drop_count + 1) % SIZE_MOD],
                 row - 1, col, tsize, i + 1)
         ELSE add_drop_loop_short(mat_put_cell_tail(m, row, col, tsize, i),
                 row - 1, col, tsize, i + 1)

RECURSIVE add_drop_loop(_, _, _, _, _)
add_drop_loop(m, row, col, tsize, i) ==
    IF i > tsize THEN m
    ELSE IF row < 0 THEN m
    ELSE IF row >= m.rows THEN add_drop_loop(m, row - 1, col, tsize, i + 1)
    ELSE IF i = 0
         THEN add_drop_loop(
                 [mat_put_cell_drop(m, row, col, tsize)
                    EXCEPT !.drop_count = (m.drop_count + 1) % SIZE_MOD],
                 row - 1, col, tsize, i + 1)
         ELSE add_drop_loop(mat_put_cell_tail(m, row, col, tsize, i),
                 row - 1, col, tsize, i + 1)

mat_add_drop(m, row, col, tsize) == add_drop_loop(m, row, col, tsize, 0)

\* ---------------------------------------------------------------------
\* mat_rain: picks[i] = <<c, r, t>>, the column, the row and the tail
\* length drawn in iteration i
\* ---------------------------------------------------------------------
\* (int) (mat->cols * mat->rows) * mat->drop_ratio, truncated to int
rain_num(m) == (m.cols * m.rows * m.drop_ratio) \div 100

RECURSIVE rain_loop(_, _, _)
rain_loop(m, picks, i) ==
    IF i > Len(picks) THEN m
    ELSE rain_loop(
            mat_add_drop(m, picks[i][2], picks[i][1], picks[i][3]),
            picks, i + 1)

mat_rain(m, picks) == rain_loop(m, picks, 1)

\* ---------------------------------------------------------------------
\* mat_mov_col: the scan of one column, bottom row first.  The loop state
\* is [m, tail_size, tail_seen, state]; tail_size and tail_seen are uint8_t.
\* ---------------------------------------------------------------------
RECURSIVE mov_col_loop(_, _, _)
mov_col_loop(s, col, row) ==
    IF row < 0 THEN s
    ELSE
      LET value == mat_get_value(s.m, row, col)
          state == val_get_state(value)
          tsize == val_get_tsize(value)
      IN  IF state = STATE_NONE
          THEN mov_col_loop([s EXCEPT !.state = state], col, row - 1)
          ELSE
            LET m1 == mat_set_state(s.m, row + 1, col, state)
                m2 == mat_set_tsize(m1, row + 1, col, tsize)
                m3 == mat_set_state(m2, row, col, STATE_NONE)
                m4 == mat_set_tsize(m3, row, col, 0)
            IN  mov_col_loop(
                  [m         |-> m4,
                   tail_size |-> IF state = STATE_DROP THEN tsize ELSE s.tail_size,
                   tail_seen |-> IF state = STATE_DROP THEN 0
                                 ELSE IF state = STATE_TAIL /\ s.tail_size > 0
                                      THEN (s.tail_seen + 1) % 256
                                      ELSE s.tail_seen,
                   state     |-> state],
                  col, row - 1)

\* `dropped` read from the row below the bottom row
mov_col_dropped_below(m, col) ==
    IF mat_get_state(m, m.rows, col) = STATE_DROP THEN 1 ELSE 0

\* the value of `dropped`, read before the scan
mov_col_dropped(m, col) ==
    IF mat_get_state(m, m.rows - 1, col) = STATE_DROP THEN 1 ELSE 0

\* mat_mov_col adding a tail cell while tail_seen <= tail_size
mov_col_mat_more(m, col) ==
    LET s == mov_col_loop([m |-> m, tail_size |-> 0, tail_seen |-> 0,
                           state |-> STATE_NONE], col, m.rows - 1)
    IN  IF s.state # STATE_NONE /\ s.tail_seen <= s.tail_size
        THEN mat_put_cell_tail(s.m, 0, col, s.tail_size, s.tail_seen + 1)
        ELSE s.m

\* the grid after mat_mov_col(mat, col)
mov_col_mat(m, col) ==
    LET s == mov_col_loop([m |-> m, tail_size |-> 0, tail_seen |-> 0,
                           state |-> STATE_NONE], col, m.rows - 1)
    IN  IF s.state # STATE_NONE /\ s.tail_seen < s.tail_size
        THEN mat_put_cell_tail(s.m, 0, col, s.tail_size, s.tail_seen + 1)
        ELSE s.m

mat_mov_col(m, col) == [m |-> mov_col_mat(m, col), ret |-> mov_col_dropped(m, col)]

\* ---------------------------------------------------------------------
\* mat_update
\* ---------------------------------------------------------------------
\* number of binary digits of x
RECURSIVE BitLen(_)
BitLen(x) == IF x = 0 THEN 0 ELSE 1 + BitLen(x \div 2)

\* (float) x for a size_t x: round to nearest, ties to even, FloatBits digits
to_float(x) ==
    IF BitLen(x) <= FloatBits THEN x
    ELSE LET q     == 2 ^ (BitLen(x) - FloatBits)
             lower == (x \div q) * q
             rem   == x - lower
         IN  IF 2 * rem > q \/ (2 * rem = q /\ (x \div q) % 2 = 1)
             THEN lower + q
             ELSE lower

\* size_t drops_desired = (mat->cols * mat->rows) * mat->drop_ratio
drops_desired(m) == (m.cols * m.rows * m.drop_ratio) \div 100

\* size_t drops_missing = drops_desired - mat->drop_count (unsigned)
drops_missing(m) == (drops_desired(m) - m.drop_count) % SIZE_MOD

\* (float) drops_missing / (float) mat->rows, before the cast to size_t;
\* defined for rows > 0 and given as the floor of the quotient
drops_quotient(m) == to_float(drops_missing(m)) \div m.rows

\* TRUE when the cast (size_t) of the quotient is undefined: the quotient
\* is NaN (rows = 0) or does not fit a size_t
update_cast_undefined(m) ==
    \/ m.rows = 0
    \/ to_float(drops_missing(m)) \div m.rows >= SIZE_MOD

\* the spawn loop: for (i = 0; i <= drops_to_add; ++i); picks[i] = <<col, t>>,
\* the column and the tail length drawn in iteration i
RECURSIVE spawn_loop(_, _, _)
spawn_loop(m, picks, i) ==
    IF i > Len(picks) THEN m
    ELSE spawn_loop(
            mat_add_drop(m, 0, picks[i][1], picks[i][2]),
            picks, i + 1)

\* the advance loop: for (col = 0; col < mat->cols; ++col)
RECURSIVE advance_loop(_, _)
advance_loop(m, col) ==
    IF col >= m.cols THEN m
    ELSE LET r == mat_mov_col(m, col)
         IN  advance_loop(
                [r.m EXCEPT !.drop_count = (m.drop_count - r.ret) % SIZE_MOD],
                col + 1)

\* mat_update with the draws of its spawn loop (Len(picks) = drops_to_add + 1)
mat_update(m, picks) == advance_loop(spawn_loop(m, picks, 1), 0)

\* the draws of a loop of n iterations: the first Min(n, MaxPicks) are any
\* draws of Draws, the later ones repeat the last of them
PickSeqs(n, Draws) ==
    IF n = 0 THEN { << >> }
    ELSE LET k == Min(n, MaxPicks)
         IN  { [i \in 1..n |-> p[Min(i, k)]] : p \in [1..k -> Draws] }

\* ---------------------------------------------------------------------
\* mat_fill, mat_init, mat_glitch
\* ---------------------------------------------------------------------
\* chars[i] is the raw rand() value drawn for cell i (row-major)
RECURSIVE fill_loop(_, _, _)
fill_loop(m, chars, i) ==
    IF i >= m.rows * m.cols THEN m
    ELSE LET r  == i \div m.cols
             c  == i % m.cols
             m1 == mat_set_state(m, r, c, STATE_NONE)
         IN  fill_loop(mat_set_ascii(m1, r, c, rand_ascii(chars[i + 1])),
                       chars, i + 1)

mat_fill(m, chars) == fill_loop(m, chars, 0)

\* the streams of rand() values a fill of n cells draws: one value for the
\* cells 0, 3, 6, ... and one for the others
FillStreams(n) ==
    { [i \in 1..n |-> IF i % 3 = 1 THEN a ELSE b] : a \in AsciiDraws, b \in AsciiDraws }

\* mat_init without the reset of drop_count
mat_init_keep(m, rows, cols, drop_ratio, ok, garbage) ==
    IF ~ok
    THEN [m EXCEPT !.data = << >>, !.null = TRUE]
    ELSE [data       |-> [i \in 1..(rows * cols) |->
                             IF i <= Len(m.data) THEN m.data[i] ELSE garbage],
          null       |-> FALSE,
          rows       |-> rows,
          cols       |-> cols,
          drop_count |-> m.drop_count,
          drop_ratio |-> drop_ratio]

\* realloc succeeded (ok) or returned NULL; cells beyond the old contents
\* are uninitialised and read as `garbage`
mat_init(m, rows, cols, drop_ratio, ok, garbage) ==
    IF ~ok
    THEN [m EXCEPT !.data = << >>, !.null = TRUE]
    ELSE [data       |-> [i \in 1..(rows * cols) |->
                             IF i <= Len(m.data) THEN m.data[i] ELSE garbage],
          null       |-> FALSE,
          rows       |-> rows,
          cols       |-> cols,
          drop_count |-> 0,
          drop_ratio |-> drop_ratio]

mat_init_ret(ok) == IF ok THEN 0 ELSE 0 - 1

\* int num = fraction * size, fraction in percent
glitch_num(m, fraction) == (fraction * m.rows * m.cols) \div 100

\* draws[i] = <<row draw, col draw, character draw>>
RECURSIVE glitch_loop(_, _, _)
glitch_loop(m, draws, i) ==
    IF i > Len(draws) THEN m
    ELSE glitch_loop(
            mat_set_ascii(m, draws[i][1] % m.rows, draws[i][2] % m.cols,
                          rand_ascii(draws[i][3])),
            draws, i + 1)

mat_glitch(m, draws) == glitch_loop(m, draws, 1)

\* the values rand_int(TSIZE_MIN, TSIZE_MAX) returns on the draws of the model
TsizeVals == { rand_int(TSIZE_MIN, TSIZE_MAX, r) : r \in TsizeDraws }
\* raw rand() values used for a row or a column
IndexDraws == {0, 1}
\* the values rand_int(0, n - 1) returns on them
IndexVals(n) == { rand_int(0, n - 1, r) : r \in IndexDraws }
\* the draws of one iteration of the spawn loop and of the rain loop
SpawnDraws(m) == IndexVals(m.cols) \X TsizeVals
RainDraws(m) == IndexVals(m.cols) \X IndexVals(m.rows) \X TsizeVals

\* ---------------------------------------------------------------------
\* State
\* ---------------------------------------------------------------------
VARIABLES
    mat,       \* matrix_s mat of main()
    ws,        \* struct winsize ws of main(): [ws_row, ws_col]
    term,      \* the size the terminal has: <<rows, cols>>
    opts,      \* options after cap_float: [drops, error], in percent
    resized,   \* static volatile int resized
    running,   \* static volatile int running
    handled,   \* static volatile int handled
    pc,        \* position of main()
    op,        \* the function executed last
    pre,       \* mat before the function executed last
    arg,       \* the arguments of the function executed last
    ret,       \* its return value
    attempts   \* iterations of the spawn loop of the last mat_update

vars == <<mat, ws, term, opts, resized, running, handled, pc, op, pre, arg, ret, attempts>>

SIGINT == 2
SIGQUIT == 3
SIGTERM == 15
SIGWINCH == 28

\* matrix_s mat = { 0 }
mat_zero == [data |-> << >>, null |-> TRUE, rows |-> 0, cols |-> 0,
             drop_count |-> 0, drop_ratio |-> 0]

TermSizes == {0, MaxRows} \X {0, MaxCols}
\* the sizes of the terminal in the runs whose signals arrive during nanosleep
TickSizes == { <<MaxRows, MaxCols>>, <<1, 10>>, <<2, 5>> }

\* uninitialised cells read as one of these words
Garbage == {0, 65535}

\* ERROR_FACTOR_DEF and ERROR_FACTOR_MAX, in percent
ERROR_FACTOR_DEF == 2
ERROR_FACTOR_MAX == 10

InitWith(sizes, drops, errors) ==
    /\ mat = mat_zero
    /\ ws = [ws_row |-> 0, ws_col |-> 0]
    /\ term \in sizes
    /\ opts \in [drops : drops, error : errors]
    /\ resized = 0
    /\ running = 0
    /\ handled = 0
    /\ pc = "start"
    /\ op = "none"
    /\ pre = mat_zero
    /\ arg = << >>
    /\ ret = 0
    /\ attempts = 0

Init == InitWith(TermSizes, {DROPS_FACTOR_MAX}, {ERROR_FACTOR_DEF})

\* ---------------------------------------------------------------------
\* Signals
\* ---------------------------------------------------------------------
Alive == pc \notin {"exit", "aborted", "fn"}

\* on_signal(SIGWINCH), delivered when the terminal takes the size t
OnSigwinch ==
    /\ Alive
    /\ \E t \in TermSizes : term' = t
    /\ resized' = 1
    /\ handled' = SIGWINCH
    /\ UNCHANGED <<mat, ws, opts, running, pc, op, pre, arg, ret, attempts>>

\* on_signal(SIGINT), on_signal(SIGQUIT), on_signal(SIGTERM)
OnSigstop ==
    /\ Alive
    /\ \E sig \in {SIGINT, SIGQUIT, SIGTERM} : handled' = sig
    /\ running' = 0
    /\ UNCHANGED <<mat, ws, term, opts, resized, pc, op, pre, arg, ret, attempts>>

\* ---------------------------------------------------------------------
\* main()
\* ---------------------------------------------------------------------
\* cli_wsize(&ws) at startup; -1 ends the program with EXIT_FAILURE
MainStart ==
    /\ pc = "start"
    /\ \E ok \in BOOLEAN :
          /\ ws' = IF ok THEN [ws_row |-> term[1], ws_col |-> term[2]] ELSE ws
          /\ pc' = IF ok THEN "init0" ELSE "exit"
          /\ ret' = IF ok THEN 0 ELSE 0 - 1
    /\ op' = "cli_wsize"
    /\ UNCHANGED <<mat, term, opts, resized, running, handled, pre, arg, attempts>>

\* mat_init(&mat, ws.ws_row, ws.ws_col, opts.drops); the result is not tested
MainMatInit ==
    /\ pc \in {"init0", "init"}
    /\ \E ok \in BOOLEAN, g \in Garbage :
          /\ mat' = mat_init(mat, ws.ws_row, ws.ws_col, opts.drops, ok, g)
          /\ ret' = mat_init_ret(ok)
    /\ pc' = IF pc = "init0" THEN "fill0" ELSE "fill"
    /\ op' = "mat_init"
    /\ UNCHANGED <<ws, term, opts, resized, running, handled, pre, arg, attempts>>

\* mat_fill(&mat); with data = NULL and cells to fill it writes through NULL
MainMatFill ==
    /\ pc \in {"fill0", "fill"}
    /\ op' = "mat_fill"
    /\ IF mat.null /\ mat.rows * mat.cols > 0
       THEN /\ pc' = "aborted"
            /\ mat' = mat
       ELSE /\ pc' = IF pc = "fill0" THEN "run" ELSE "rain"
            /\ \E chars \in FillStreams(mat.rows * mat.cols) :
                  mat' = mat_fill(mat, chars)
    /\ UNCHANGED <<ws, term, opts, resized, running, handled, pre, arg, ret, attempts>>

\* cli_setup(); running = 1
MainRun ==
    /\ pc = "run"
    /\ running' = 1
    /\ pc' = "while"
    /\ UNCHANGED <<mat, ws, term, opts, resized, handled, op, pre, arg, ret, attempts>>

\* while (running)
MainWhile ==
    /\ pc = "while"
    /\ pc' = IF running # 0 THEN "if_resized" ELSE "free"
    /\ UNCHANGED <<mat, ws, term, opts, resized, running, handled, op, pre, arg, ret, attempts>>

\* if (resized)
MainIfResized ==
    /\ pc = "if_resized"
    /\ pc' = IF resized # 0 THEN "wsize" ELSE "print"
    /\ UNCHANGED <<mat, ws, term, opts, resized, running, handled, op, pre, arg, ret, attempts>>

\* cli_wsize(&ws) of the resize block; the result is not tested
MainWsize ==
    /\ pc = "wsize"
    /\ \E ok \in BOOLEAN :
          /\ ws' = IF ok THEN [ws_row |-> term[1], ws_col |-> term[2]] ELSE ws
          /\ ret' = IF ok THEN 0 ELSE 0 - 1
    /\ pc' = "init"
    /\ op' = "cli_wsize"
    /\ UNCHANGED <<mat, term, opts, resized, running, handled, pre, arg, attempts>>

\* mat_rain(&mat)
MainMatRain ==
    /\ pc = "rain"
    /\ \E picks \in PickSeqs(rain_num(mat), RainDraws(mat)) :
          mat' = mat_rain(mat, picks)
    /\ pc' = "clear"
    /\ op' = "mat_rain"
    /\ UNCHANGED <<ws, term, opts, resized, running, handled, pre, arg, ret, attempts>>

\* resized = 0
MainClear ==
    /\ pc = "clear"
    /\ resized' = 0
    /\ pc' = "print"
    /\ UNCHANGED <<mat, ws, term, opts, running, handled, op, pre, arg, ret, attempts>>

\* cli_clear(mat.rows); mat_print(&mat): reads every cell, writes none
MainMatPrint ==
    /\ pc = "print"
    /\ pc' = "glitch"
    /\ op' = "mat_print"
    /\ UNCHANGED <<mat, ws, term, opts, resized, running, handled, pre, arg, ret, attempts>>

\* the draws of one iteration of mat_glitch: rand(), rand(), rand_ascii()
GlitchDraws(m) == IndexDraws \X IndexDraws \X AsciiDraws

\* mat_glitch(&mat, opts.error)
MainMatGlitch ==
    /\ pc = "glitch"
    /\ \E draws \in PickSeqs(glitch_num(mat, opts.error), GlitchDraws(mat)) :
          mat' = mat_glitch(mat, draws)
    /\ pc' = "update"
    /\ op' = "mat_glitch"
    /\ UNCHANGED <<ws, term, opts, resized, running, handled, pre, arg, ret, attempts>>

\* mat_update(&mat); nanosleep(&ts, NULL).
\* On a grid without rows or columns the spawn loop divides by zero
\* (rand() % 0), casts NaN to size_t or reads data[-cols + col]: the tick
\* either ends the process or completes without touching a cell.
\* With rows = 1 and a quotient of 2^SizeBits the cast is undefined: it
\* yields 0, or a value that keeps the loop from ending.
MainMatUpdate ==
    /\ pc = "update"
    /\ op' = "mat_update"
    /\ IF mat.rows = 0 \/ mat.cols = 0
       THEN \/ /\ pc' = "aborted"
               /\ UNCHANGED <<mat, attempts>>
            \/ /\ pc' = "while"
               /\ attempts' = 1
               /\ \E d \in {0, IF mat.rows = 0 THEN 0 - 1 ELSE 1} :
                     mat' = [mat EXCEPT !.drop_count = (mat.drop_count + d) % SIZE_MOD]
       ELSE \E n \in IF update_cast_undefined(mat)
                     THEN {0, 1}
                     ELSE {drops_quotient(mat) + 1} :
               IF n = 0 \/ n = SIZE_MOD
               THEN /\ pc' = "aborted"
                    /\ UNCHANGED <<mat, attempts>>
               ELSE /\ pc' = "while"
                    /\ attempts' = n
                    /\ \E picks \in PickSeqs(n, SpawnDraws(mat)) :
                          mat' = mat_update(mat, picks)
    /\ UNCHANGED <<ws, term, opts, resized, running, handled, pre, arg, ret>>

\* mat_free(&mat); cli_reset(); return EXIT_SUCCESS
MainFree ==
    /\ pc = "free"
    /\ pc' = "exit"
    /\ op' = "mat_free"
    /\ mat' = [mat EXCEPT !.data = << >>]
    /\ UNCHANGED <<ws, term, opts, resized, running, handled, pre, arg, ret, attempts>>

Next ==
    \/ OnSigwinch
    \/ OnSigstop
    \/ MainStart
    \/ MainMatInit
    \/ MainMatFill
    \/ MainRun
    \/ MainWhile
    \/ MainIfResized
    \/ MainWsize
    \/ MainMatRain
    \/ MainClear
    \/ MainMatPrint
    \/ MainMatGlitch
    \/ MainMatUpdate
    \/ MainFree

Spec == Init /\ [][Next]_vars

\* ---------------------------------------------------------------------
\* The runs in which every SIGWINCH is delivered while main() is in
\* nanosleep (before the test of `running`) and no stop signal arrives:
\* the grid engine on the sizes of TickSizes.
\* ---------------------------------------------------------------------
InitTicks == InitWith(TickSizes, {DROPS_FACTOR_MIN, DROPS_FACTOR_MAX}, {ERROR_FACTOR_DEF})

SleepSigwinch ==
    /\ pc = "while"
    /\ \E t \in TickSizes : term' = t
    /\ resized' = 1
    /\ handled' = SIGWINCH
    /\ UNCHANGED <<mat, ws, opts, running, pc, op, pre, arg, ret, attempts>>

NextTicks ==
    \/ SleepSigwinch
    \/ MainStart
    \/ MainMatInit
    \/ MainMatFill
    \/ MainRun
    \/ MainWhile
    \/ MainIfResized
    \/ MainWsize
    \/ MainMatRain
    \/ MainClear
    \/ MainMatPrint
    \/ MainMatGlitch
    \/ MainMatUpdate

SpecTicks == InitTicks /\ [][NextTicks]_vars

\* ---------------------------------------------------------------------
\* The accessors mat_get_value and mat_set_value applied to a filled grid
\* with any int coordinates, one row or column outside the grid included.
\* An index outside the cells (data[idx], idx < 0) is undefined: the call
\* ends the process or goes on with an arbitrary word read, no cell written.
\* ---------------------------------------------------------------------
\* number of calls of mat_get_value / mat_set_value, and of mat_add_drop,
\* in one run; attempts counts them
MaxCalls == 2

\* a filled grid of the given size
filled_grid(rows, cols, ratio, chars) ==
    mat_fill(mat_init(mat_zero, rows, cols, ratio, TRUE, 0), chars)

InitFn(grids) ==
    /\ mat \in grids
    /\ ws = [ws_row |-> 0, ws_col |-> 0]
    /\ term = <<0, 0>>
    /\ opts = [drops |-> DROPS_FACTOR_MAX, error |-> ERROR_FACTOR_DEF]
    /\ resized = 0
    /\ running = 0
    /\ handled = 0
    /\ pc = "fn"
    /\ op = "none"
    /\ pre = mat
    /\ arg = << >>
    /\ ret = 0
    /\ attempts = 0

AccessGrids ==
    UNION { { filled_grid(sz[1], sz[2], DROPS_FACTOR_MAX, chars) :
                chars \in FillStreams(sz[1] * sz[2]) } :
            sz \in (1..MaxRows) \X (1..MaxCols) }

\* the words written by the calls of the model: a DROP, a TAIL, a NONE cell
AccessValues == { val_new(65, STATE_DROP, TSIZE_MIN), val_new(66, STATE_TAIL, 1),
                  val_new(67, STATE_NONE, 0) }

InitAccess == InitFn(AccessGrids)

GetValue ==
    /\ pc = "fn"
    /\ attempts < MaxCalls
    /\ attempts' = attempts + 1
    /\ \E row \in (0 - 1)..mat.rows, col \in (0 - 1)..mat.cols :
          /\ arg' = <<row, col>>
          /\ IF Guarded(mat, row, col) \/ InBuf(mat, mat_idx(mat, row, col))
             THEN /\ ret' = mat_get_value(mat, row, col)
                  /\ pc' = "fn"
             ELSE /\ ret' \in Garbage
                  /\ pc' \in {"undefined", "aborted"}
    /\ op' = "mat_get_value"
    /\ pre' = mat
    /\ UNCHANGED <<mat, ws, term, opts, resized, running, handled>>

SetValue ==
    /\ pc = "fn"
    /\ attempts < MaxCalls
    /\ attempts' = attempts + 1
    /\ \E row \in (0 - 1)..mat.rows, col \in (0 - 1)..mat.cols, value \in AccessValues :
          /\ arg' = <<row, col, value>>
          /\ IF Guarded(mat, row, col) \/ InBuf(mat, mat_idx(mat, row, col))
             THEN /\ mat' = mat_set_value(mat, row, col, value)
                  /\ pc' = "fn"
             ELSE /\ mat' = mat
                  /\ pc' \in {"undefined", "aborted"}
    /\ op' = "mat_set_value"
    /\ pre' = mat
    /\ UNCHANGED <<ws, term, opts, resized, running, handled, ret>>

NextAccess == GetValue \/ SetValue

SpecAccess == InitAccess /\ [][NextAccess]_vars

\* ---------------------------------------------------------------------
\* The grid engine function by function: drop placement (mat_add_drop, as
\* mat_rain and mat_update call it) and one iteration of the advance loop
\* of mat_update (mat->drop_count -= mat_mov_col(mat, col)) on a filled grid.
\* ---------------------------------------------------------------------

\* a grid of one column and ten rows, and one of MaxRows + 1 rows
EngineGrids ==
    { filled_grid(sz[1], sz[2], DROPS_FACTOR_MAX, [i \in 1..(sz[1] * sz[2]) |-> 7]) :
        sz \in { <<10, 1>>, <<MaxRows + 1, MaxCols>> } }

\* tail lengths placed: the ends of [TSIZE_MIN, TSIZE_MAX], and a short one
PlaceLens == {3, TSIZE_MIN, TSIZE_MAX}

InitEngine == InitFn(EngineGrids)

\* mat_add_drop(mat, row, col, tsize)
AddDrop ==
    /\ pc = "fn"
    /\ attempts < MaxCalls
    /\ \E row \in 0..(mat.rows - 1), col \in 0..(mat.cols - 1), tsize \in PlaceLens :
          /\ arg' = <<row, col, tsize>>
          /\ mat' = mat_add_drop(mat, row, col, tsize)
    /\ attempts' = attempts + 1
    /\ op' = "mat_add_drop"
    /\ pre' = mat
    /\ UNCHANGED <<ws, term, opts, resized, running, handled, pc, ret>>

\* mat->drop_count -= mat_mov_col(mat, col)
MovColStep ==
    /\ pc = "fn"
    /\ \E col \in 0..(mat.cols - 1) :
          LET r == mat_mov_col(mat, col)
          IN  /\ arg' = <<col>>
              /\ ret' = r.ret
              /\ mat' = [r.m EXCEPT !.drop_count = (mat.drop_count - r.ret) % SIZE_MOD]
    /\ op' = "mat_mov_col"
    /\ pre' = mat
    /\ UNCHANGED <<ws, term, opts, resized, running, handled, pc, attempts>>

NextEngine == AddDrop \/ MovColStep

SpecEngine == InitEngine /\ [][NextEngine]_vars

\* ---------------------------------------------------------------------
\* Properties
\* ---------------------------------------------------------------------
Cells(m) == DOMAIN m.data
CellState(m, i) == val_get_state(m.data[i])
CellTsize(m, i) == val_get_tsize(m.data[i])
CellAscii(m, i) == val_get_ascii(m.data[i])
DropCells(m) == Cardinality({ i \in Cells(m) : CellState(m, i) = STATE_DROP })

\* mat is an allocated grid with rows and columns
Regular == ~mat.null /\ mat.rows > 0 /\ mat.cols > 0

\* the cells of mat are initialised: not between mat_init and mat_fill
Filled == op # "mat_init" /\ Len(mat.data) = mat.rows * mat.cols

\* C1: after every tick (mat_update) and after the rain pass of a resize,
\* drop_count equals the number of cells whose state is DROP.
C1_DropCountExact ==
    (op \in {"mat_update", "mat_rain"} /\ pc # "aborted" /\ Regular)
        => mat.drop_count = DropCells(mat)

\* C2: with missing = target - drop_count read on entry of mat_update, the
\* spawn loop makes floor(missing / rows) + 1 placements when missing > 0
\* and at most one placement when missing <= 0.
C2_SpawnOnlyDeficit ==
    [][(pc = "update" /\ pc' = "while" /\ mat.rows > 0 /\ mat.cols > 0)
         => LET missing == drops_desired(mat) - mat.drop_count
            IN  /\ missing > 0 => attempts' = (missing \div mat.rows) + 1
                /\ missing <= 0 => attempts' <= 1]_vars

\* C3: when mat_init could not allocate the cells of the terminal's size
\* (mat.data is NULL), none of mat_fill, mat_rain, mat_print, mat_glitch,
\* mat_update is executed.
C3_AllocFailureFatal ==
    (mat.null /\ ws.ws_row * ws.ws_col > 0)
        => op \notin {"mat_fill", "mat_rain", "mat_print", "mat_glitch", "mat_update"}

\* C5: no tick (mat_print, mat_glitch, mat_update) and no rain pass is
\* executed on an allocated grid with rows = 0 or cols = 0.
C5_NoDegenerateGrid ==
    (op \in {"mat_rain", "mat_print", "mat_glitch", "mat_update"} /\ ~mat.null)
        => (mat.rows > 0 /\ mat.cols > 0)

\* C6: once the grid is filled, every cell whose state is NONE has tsize 0,
\* and mat_set_state(row, col, STATE_NONE) on any cell gives state NONE,
\* tsize 0 and the character the cell had.
C6_NoneHasZeroAux ==
    /\ Filled => \A i \in Cells(mat) : CellState(mat, i) = STATE_NONE => CellTsize(mat, i) = 0
    /\ Len(mat.data) = mat.rows * mat.cols =>
         \A r \in 0..(mat.rows - 1), c \in 0..(mat.cols - 1) :
            LET v == mat_get_value(mat_set_state(mat, r, c, STATE_NONE), r, c)
            IN  /\ val_get_state(v) = STATE_NONE
                /\ val_get_tsize(v) = 0
                /\ val_get_ascii(v) = mat_get_ascii(mat, r, c)

\* a tick has run and left the grid with a NONE, a DROP and a TAIL cell
C6_Witness ==
    /\ op = "mat_update" /\ pc = "while"
    /\ \E i \in Cells(mat) : CellState(mat, i) = STATE_NONE
    /\ \E i \in Cells(mat) : CellState(mat, i) = STATE_DROP
    /\ \E i \in Cells(mat) : CellState(mat, i) = STATE_TAIL

\* C7: once the grid is filled, every DROP cell has tsize in
\* [TSIZE_MIN, TSIZE_MAX] and every TAIL cell has tsize in [0, NUM_COLORS - 1].
C7_AuxRanges ==
    Filled => \A i \in Cells(mat) :
        /\ CellState(mat, i) = STATE_DROP =>
              (CellTsize(mat, i) >= TSIZE_MIN /\ CellTsize(mat, i) <= TSIZE_MAX)
        /\ CellState(mat, i) = STATE_TAIL =>
              (CellTsize(mat, i) >= 0 /\ CellTsize(mat, i) <= NUM_COLORS - 1)

\* mat_print runs before any tick on a grid on which the rain pass of a
\* resize has placed a DROP with its TAIL above it
C7_Witness ==
    /\ op = "mat_print"
    /\ attempts = 0
    /\ mat.rows = 2
    /\ \E c \in 0..(mat.cols - 1) :
          /\ mat_get_state(mat, 1, c) = STATE_DROP
          /\ mat_get_state(mat, 0, c) = STATE_TAIL
          /\ mat_get_tsize(mat, 0, c) = 1

\* (row, col) is a cell of the grid m
InGrid(m, row, col) == row >= 0 /\ row < m.rows /\ col >= 0 /\ col < m.cols

\* C4: for (row, col) outside the grid mat_get_value returns 0 and
\* mat_set_value changes no cell; for (row, col) inside the grid
\* mat_set_value changes that cell alone and mat_get_value returns the
\* value the cell holds.
C4_OutOfRangeNeutral ==
    (op \in {"mat_get_value", "mat_set_value"} /\ pc = "fn") =>
        LET row == arg[1]
            col == arg[2]
        IN  /\ (op = "mat_get_value" /\ ~InGrid(pre, row, col)) => ret = 0
            /\ (op = "mat_set_value" /\ ~InGrid(pre, row, col)) => mat.data = pre.data
            /\ (op = "mat_get_value" /\ InGrid(pre, row, col)) =>
                  ret = pre.data[row * pre.cols + col + 1]
            /\ (op = "mat_set_value" /\ InGrid(pre, row, col)) =>
                  \A i \in Cells(mat) :
                     mat.data[i] = IF i = row * pre.cols + col + 1
                                   THEN arg[3] ELSE pre.data[i]

\* the cells of column col, top row first
Column(m, col) == [r \in 0..(m.rows - 1) |-> m.data[r * m.cols + col + 1]]

\* C8: mat_mov_col on column c leaves every cell of every other column as
\* it was before the call.
C8_ColumnIndependence ==
    op = "mat_mov_col" =>
        \A c \in 0..(mat.cols - 1) : c # arg[1] => Column(mat, c) = Column(pre, c)

\* column arg[1] was advanced with a DROP in its bottom row (shifted out of the
\* grid) and a DROP in the bottom row of another column
C8_Witness ==
    /\ op = "mat_mov_col"
    /\ mat.cols > 1
    /\ val_get_state(Column(pre, arg[1])[pre.rows - 1]) = STATE_DROP
    /\ \E c \in 0..(mat.cols - 1) :
          c # arg[1] /\ val_get_state(Column(mat, c)[mat.rows - 1]) = STATE_DROP

\* the least k with k * b >= a
CeilDiv(a, b) == CHOOSE k \in 0..a : k * b >= a /\ (k = 0 \/ (k - 1) * b < a)

\* C9: mat_add_drop(row, col, L) with 0 <= row < rows writes DROP with tsize L
\* at (row, col), TAIL with tsize ceil((NUM_COLORS - 1) * i / L) at
\* (row - i, col) for every i in 1..min(L, row), non-decreasing in i, changes
\* no other cell and no character, and raises drop_count by 1; on the empty
\* 10 x 1 grid, row 5 and L = 3 give DROP at row 5 and TAILs at rows 4, 3, 2
\* with strictly increasing colour index, and no other DROP or TAIL.
C9_DropPlacement ==
    op = "mat_add_drop" =>
        LET row == arg[1]
            col == arg[2]
            L   == arg[3]
            n   == Min(L, row)
            at(r) == mat.data[r * mat.cols + col + 1]
        IN  /\ val_get_state(at(row)) = STATE_DROP
            /\ val_get_tsize(at(row)) = L
            /\ \A i \in 1..n :
                  /\ val_get_state(at(row - i)) = STATE_TAIL
                  /\ val_get_tsize(at(row - i)) = CeilDiv((NUM_COLORS - 1) * i, L)
            /\ \A i \in 1..n, j \in 1..n :
                  i <= j => val_get_tsize(at(row - i)) <= val_get_tsize(at(row - j))
            /\ \A r \in 0..(mat.rows - 1), c \in 0..(mat.cols - 1) :
                  LET k == r * mat.cols + c + 1
                  IN  /\ CellAscii(mat, k) = CellAscii(pre, k)
                      /\ (c # col \/ r > row \/ r < row - n) => mat.data[k] = pre.data[k]
            /\ mat.drop_count = pre.drop_count + 1
            /\ (mat.rows = 10 /\ mat.cols = 1 /\ row = 5 /\ L = 3
                  /\ \A k \in Cells(pre) : CellState(pre, k) = STATE_NONE) =>
                  /\ \A r \in {0, 1, 6, 7, 8, 9} : val_get_state(at(r)) = STATE_NONE
                  /\ val_get_tsize(at(4)) < val_get_tsize(at(3))
                  /\ val_get_tsize(at(3)) < val_get_tsize(at(2))

\* the empty 10 x 1 grid after mat_add_drop(5, 0, 3)
C9_Witness ==
    /\ op = "mat_add_drop"
    /\ arg = <<5, 0, 3>>
    /\ mat.rows = 10 /\ mat.cols = 1
    /\ pre.drop_count = 0
    /\ \A k \in Cells(pre) : CellState(pre, k) = STATE_NONE

\* the only DROP of column col of m is in the bottom row
SingleBottomDrop(m, col) ==
    \A r \in 0..(m.rows - 1) :
        (val_get_state(Column(m, col)[r]) = STATE_DROP) <=> (r = m.rows - 1)

\* C10: mat_mov_col returns 1 when the bottom row of the column held a DROP
\* before the call and 0 otherwise; when that DROP was the only one of the
\* column, the step lowers drop_count by 1, leaves no DROP in the column and
\* one DROP less in the grid.
C10_ExitAccounting ==
    op = "mat_mov_col" =>
        LET col == arg[1]
        IN  /\ ret = IF val_get_state(Column(pre, col)[pre.rows - 1]) = STATE_DROP
                     THEN 1 ELSE 0
            /\ SingleBottomDrop(pre, col) =>
                  /\ mat.drop_count = pre.drop_count - 1
                  /\ \A r \in 0..(mat.rows - 1) :
                        val_get_state(Column(mat, col)[r]) # STATE_DROP
                  /\ DropCells(mat) = DropCells(pre) - 1

\* a column whose only DROP was in the bottom row has been advanced
C10_Witness ==
    /\ op = "mat_mov_col"
    /\ ret = 1
    /\ SingleBottomDrop(pre, arg[1])
    /\ mat.rows > 1

\* ---------------------------------------------------------------------
\* Reinitialisation (mat_init; mat_fill, as main() calls them) and
\* mat_glitch, applied to grids that hold drops and tails.
\* ---------------------------------------------------------------------
\* the dimensions a grid is reinitialised with: smaller, larger, without rows
ReinitSizes == { <<1, 1>>, <<MaxRows, MaxCols>>, <<10, 1>>, <<0, MaxCols>> }

\* the fractions mat_glitch is called with, in percent
GlitchFractions == {0, ERROR_FACTOR_DEF, ERROR_FACTOR_MAX}

InitGrid == InitFn(EngineGrids)

\* mat_init(&mat, rows, cols, drop_ratio); mat_fill(&mat)
\* arg = <<rows, cols, garbage>>, ret = the result of mat_init
Reinit ==
    /\ pc = "fn"
    /\ attempts < MaxCalls
    /\ \E sz \in ReinitSizes, ok \in BOOLEAN, g \in Garbage :
          LET m1 == mat_init(mat, sz[1], sz[2], mat.drop_ratio, ok, g)
          IN  /\ arg' = <<sz[1], sz[2], g>>
              /\ ret' = mat_init_ret(ok)
              /\ IF m1.null /\ m1.rows * m1.cols > 0
                 THEN /\ pc' = "aborted"
                      /\ mat' = m1
                 ELSE /\ pc' = "fn"
                      /\ \E chars \in FillStreams(m1.rows * m1.cols) :
                            mat' = mat_fill(m1, chars)
    /\ attempts' = attempts + 1
    /\ op' = "mat_fill"
    /\ pre' = mat
    /\ UNCHANGED <<ws, term, opts, resized, running, handled>>

\* mat_glitch(&mat, fraction); arg = <<fraction, draws>>
Glitch ==
    /\ pc = "fn"
    /\ attempts < MaxCalls
    /\ \E fraction \in GlitchFractions :
          \E draws \in PickSeqs(glitch_num(mat, fraction), GlitchDraws(mat)) :
             /\ arg' = <<fraction, draws>>
             /\ mat' = mat_glitch(mat, draws)
    /\ attempts' = attempts + 1
    /\ op' = "mat_glitch"
    /\ pre' = mat
    /\ UNCHANGED <<ws, term, opts, resized, running, handled, pc, ret>>

NextGrid == AddDrop \/ Reinit \/ Glitch

SpecGrid == InitGrid /\ [][NextGrid]_vars

\* C11: after mat_init followed by mat_fill, with any dimensions and any
\* prior contents, drop_count is 0 and every one of the rows x cols cells
\* has state NONE, tsize 0 and a character in [ASCII_MIN, ASCII_MAX].
C11_ReinitDiscards ==
    (op = "mat_fill" /\ pc = "fn") =>
        /\ mat.drop_count = 0
        /\ ret = 0 => (mat.rows = arg[1] /\ mat.cols = arg[2]
                         /\ Len(mat.data) = arg[1] * arg[2])
        /\ \A r \in 0..(mat.rows - 1), c \in 0..(mat.cols - 1) :
              LET v == mat.data[r * mat.cols + c + 1]
              IN  /\ val_get_state(v) = STATE_NONE
                  /\ val_get_tsize(v) = 0
                  /\ val_get_ascii(v) >= ASCII_MIN
                  /\ val_get_ascii(v) <= ASCII_MAX

\* a grid with a DROP and a TAIL was reinitialised to a larger grid whose new
\* cells came uninitialised from realloc
C11_Witness ==
    /\ op = "mat_fill" /\ pc = "fn" /\ ret = 0
    /\ pre.drop_count > 0
    /\ \E i \in Cells(pre) : CellState(pre, i) = STATE_DROP
    /\ \E i \in Cells(pre) : CellState(pre, i) = STATE_TAIL
    /\ Len(mat.data) > Len(pre.data)
    /\ arg[3] = 65535

\* the greatest k with k * 100 <= percent * n
FloorPercent(percent, n) ==
    CHOOSE k \in 0..n : k * 100 <= percent * n /\ (k + 1) * 100 > percent * n

\* the cells drawn by mat_glitch, as indices of data
GlitchCells(m, draws) ==
    { (draws[i][1] % m.rows) * m.cols + (draws[i][2] % m.cols) + 1 : i \in DOMAIN draws }

\* C12: mat_glitch(fraction) performs floor(fraction * rows * cols) draws and
\* changes only the character of drawn cells, to a value in
\* [ASCII_MIN, ASCII_MAX]; every state and tsize and drop_count are unchanged,
\* and with fraction = 0 the grid is the same before and after.
C12_GlitchCharactersOnly ==
    op = "mat_glitch" =>
        /\ Len(arg[2]) = FloorPercent(arg[1], pre.rows * pre.cols)
        /\ mat.drop_count = pre.drop_count
        /\ mat.rows = pre.rows /\ mat.cols = pre.cols
        /\ Len(mat.data) = Len(pre.data)
        /\ \A i \in Cells(mat) :
              /\ CellState(mat, i) = CellState(pre, i)
              /\ CellTsize(mat, i) = CellTsize(pre, i)
              /\ CellAscii(mat, i) # CellAscii(pre, i) =>
                    /\ i \in GlitchCells(pre, arg[2])
                    /\ CellAscii(mat, i) >= ASCII_MIN
                    /\ CellAscii(mat, i) <= ASCII_MAX
        /\ arg[1] = 0 => mat = pre

\* mat_glitch changed the character of a DROP cell
C12_Witness ==
    /\ op = "mat_glitch"
    /\ Len(arg[2]) = 1
    /\ \E i \in Cells(mat) :
          /\ CellState(pre, i) = STATE_DROP
          /\ CellAscii(mat, i) # CellAscii(pre, i)

\* ---------------------------------------------------------------------
\* The cell codec on every valid (character, state, tsize): val_new, then
\* the three getters on its result.
\* ---------------------------------------------------------------------
CodecInputs ==
    (ASCII_MIN..ASCII_MAX) \X {STATE_NONE, STATE_DROP, STATE_TAIL} \X (0..TSIZE_MAX)

InitCodec ==
    /\ mat = mat_zero
    /\ ws = [ws_row |-> 0, ws_col |-> 0]
    /\ term = <<0, 0>>
    /\ opts = [drops |-> DROPS_FACTOR_MAX, error |-> ERROR_FACTOR_DEF]
    /\ resized = 0
    /\ running = 0
    /\ handled = 0
    /\ pc = "fn"
    /\ op = "none"
    /\ pre = mat_zero
    /\ arg \in CodecInputs
    /\ ret = 0
    /\ attempts = 0

\* ret = val_new(ascii, state, tsize)
ValNew ==
    /\ pc = "fn"
    /\ op = "none"
    /\ ret' = val_new(arg[1], arg[2], arg[3])
    /\ op' = "val_new"
    /\ UNCHANGED <<mat, ws, term, opts, resized, running, handled, pc, pre, arg, attempts>>

\* ret = <<val_get_ascii(value), val_get_state(value), val_get_tsize(value)>>
ValGet ==
    /\ pc = "fn"
    /\ op = "val_new"
    /\ ret' = <<val_get_ascii(ret), val_get_state(ret), val_get_tsize(ret)>>
    /\ op' = "val_get"
    /\ UNCHANGED <<mat, ws, term, opts, resized, running, handled, pc, pre, arg, attempts>>

NextCodec == ValNew \/ ValGet

SpecCodec == InitCodec /\ [][NextCodec]_vars

\* C13: for every character in [32, 126], every state in {NONE, DROP, TAIL}
\* and every tsize in [0, 63], the getters applied to val_new(character,
\* state, tsize) return (character, state, tsize).
C13_CodecRoundTrip == op = "val_get" => ret = arg

\* the largest character, state and tsize have been encoded and decoded
C13_Witness == op = "val_get" /\ arg = <<ASCII_MAX, STATE_TAIL, TSIZE_MAX>>

\* ---------------------------------------------------------------------
\* A resize followed by ticks: mat_rain on a freshly filled grid (as main()
\* calls it after mat_init and mat_fill), then calls of mat_update.
\* ---------------------------------------------------------------------
\* a grid of eleven rows, more than TSIZE_MIN + 2, and one of MaxRows + 1 rows
RunGrids ==
    { filled_grid(sz[1], sz[2], DROPS_FACTOR_MAX, [i \in 1..(sz[1] * sz[2]) |-> 7]) :
        sz \in { <<11, 2>>, <<MaxRows + 1, MaxCols>> } }

\* raw rand() values used for a row by the rain pass of these runs
RainRowDraws == {1, 9}

\* the draws <<c, r, t>> of one iteration of mat_rain
RunRainDraws(m) ==
    IndexVals(m.cols) \X { rand_int(0, m.rows - 1, r) : r \in RainRowDraws } \X TsizeVals

InitRun == InitFn(RunGrids)

\* mat_rain(&mat) on the filled grid; arg = the draws
Rain ==
    /\ pc = "fn"
    /\ op = "none"
    /\ \E picks \in PickSeqs(rain_num(mat), RunRainDraws(mat)) :
          /\ arg' = picks
          /\ mat' = mat_rain(mat, picks)
    /\ op' = "mat_rain"
    /\ pre' = mat
    /\ UNCHANGED <<ws, term, opts, resized, running, handled, pc, ret, attempts>>

\* mat_update(&mat); arg = the draws of its spawn loop
Tick ==
    /\ pc = "fn"
    /\ attempts < MaxCalls
    /\ \E n \in IF update_cast_undefined(mat)
                THEN {0, 1}
                ELSE {drops_quotient(mat) + 1} :
          IF n = 0 \/ n = SIZE_MOD
          THEN /\ pc' = "aborted"
               /\ UNCHANGED <<mat, arg>>
          ELSE /\ pc' = "fn"
               /\ \E picks \in PickSeqs(n, SpawnDraws(mat)) :
                     /\ arg' = picks
                     /\ mat' = mat_update(mat, picks)
    /\ attempts' = attempts + 1
    /\ op' = "mat_update"
    /\ pre' = mat
    /\ UNCHANGED <<ws, term, opts, resized, running, handled, ret>>

NextRun == Rain \/ Tick

SpecRun == InitRun /\ [][NextRun]_vars

\* the integer nearest to percent * n / 100
RoundPercent(percent, n) == (2 * percent * n + 100) \div 200

\* C14: the target drop count of the spawn phase of a tick, and the number
\* of placements of a rain pass, is round(rows * cols * drop_ratio).
C14_TargetIsRounded ==
    /\ op = "mat_rain" =>
          Len(arg) = RoundPercent(pre.drop_ratio, pre.rows * pre.cols)
    /\ op = "mat_update" =>
          drops_desired(pre) = RoundPercent(pre.drop_ratio, pre.rows * pre.cols)

\* the rows below row of column col of m that hold a DROP
DropsBelow(m, row, col) ==
    { r \in (row + 1)..(m.rows - 1) : val_get_state(Column(m, col)[r]) = STATE_DROP }

\* the least element of a non-empty set of integers
Least(S) == CHOOSE x \in S : \A y \in S : x <= y

\* C16: after every tick, every TAIL cell with a DROP below it in its column
\* has tsize ceil((NUM_COLORS - 1) * d / L), d its distance to the nearest
\* DROP below it and L the tsize of that DROP.
C16_TailColorByDistance ==
    (op = "mat_update" /\ pc = "fn") =>
        \A c \in 0..(mat.cols - 1), r \in 0..(mat.rows - 1) :
           (val_get_state(Column(mat, c)[r]) = STATE_TAIL /\ DropsBelow(mat, r, c) # {}) =>
              LET rd == Least(DropsBelow(mat, r, c))
                  L  == val_get_tsize(Column(mat, c)[rd])
              IN  val_get_tsize(Column(mat, c)[r]) = CeilDiv((NUM_COLORS - 1) * (rd - r), L)

\* C15: after every tick and after the rain pass of a resize, drop_count
\* exceeds the target drop count by at most 1.
C15_BoundedDropCount ==
    (op \in {"mat_update", "mat_rain"} /\ pc # "aborted" /\ Regular) =>
        mat.drop_count <= drops_desired(mat) + 1

\* ---------------------------------------------------------------------
\* The runs of main() in which ioctl(TIOCGWINSZ) and realloc succeed and the
\* terminal has rows and columns: SIGWINCH is delivered at any point of
\* main(), no stop signal arrives.
\* ---------------------------------------------------------------------
ResizeSizes == { <<MaxRows, MaxCols>>, <<1, MaxCols>> }

InitResize == InitWith(ResizeSizes, {DROPS_FACTOR_MAX}, {ERROR_FACTOR_DEF})

\* on_signal(SIGWINCH), delivered when the terminal takes the size t
ResizeSigwinch ==
    /\ Alive
    /\ \E t \in ResizeSizes : term' = t
    /\ resized' = 1
    /\ handled' = SIGWINCH
    /\ UNCHANGED <<mat, ws, opts, running, pc, op, pre, arg, ret, attempts>>

\* cli_wsize() returns 0 at startup and in the resize block; mat_init returns 0
MainStartOk == MainStart /\ ret' = 0
MainWsizeOk == MainWsize /\ ret' = 0
MainMatInitOk == MainMatInit /\ ret' = 0

NextResize ==
    \/ ResizeSigwinch
    \/ MainStartOk
    \/ MainMatInitOk
    \/ MainMatFill
    \/ MainRun
    \/ MainWhile
    \/ MainIfResized
    \/ MainWsizeOk
    \/ MainMatRain
    \/ MainClear
    \/ MainMatPrint
    \/ MainMatGlitch
    \/ MainMatUpdate

SpecResize == InitResize /\ [][NextResize]_vars

\* C17: no resize event is lost: whenever main() renders a frame with the
\* resized flag clear (no reinitialisation pending), the grid has the
\* dimensions the terminal has.
C17_NoResizeLost ==
    (pc = "print" /\ resized = 0) => (mat.rows = term[1] /\ mat.cols = term[2])

\* the rows of column col of m that hold a DROP
DropRows(m, col) ==
    { r \in 0..(m.rows - 1) : val_get_state(Column(m, col)[r]) = STATE_DROP }

\* the number of TAIL cells directly above row k of column col of m
TailsAbove(m, col, k) ==
    CHOOSE t \in 0..k :
        /\ \A r \in (k - t)..(k - 1) : val_get_state(Column(m, col)[r]) = STATE_TAIL
        /\ (t = k \/ val_get_state(Column(m, col)[k - t - 1]) # STATE_TAIL)

\* the number of TAIL cells above row k of column col of m
TailsSeen(m, col, k) ==
    Cardinality({ r \in 0..(k - 1) : val_get_state(Column(m, col)[r]) = STATE_TAIL })

\* C18: one advance of a column shifts every cell one row down and adds at
\* most one cell, a TAIL at row 0, and none once the TAIL cells above the
\* topmost DROP number its tail length L; the topmost DROP of a column (the
\* last spawn of the column), of tail length L < rows, at row k with
\* min(k, L) TAIL cells directly above it, is after the advance at row k + 1
\* with min(k + 1, L) TAIL cells directly above it: one more per tick from
\* none at the spawn at row 0, up to L.
C18_TailGrowth ==
    op = "mat_mov_col" =>
        LET c    == arg[1]
            old  == Column(pre, c)
            new  == Column(mat, c)
        IN  /\ \A r \in 1..(mat.rows - 1) :
                  /\ val_get_state(new[r]) = val_get_state(old[r - 1])
                  /\ val_get_tsize(new[r]) = val_get_tsize(old[r - 1])
            /\ val_get_state(new[0]) \in {STATE_NONE, STATE_TAIL}
            /\ DropRows(pre, c) = {} => val_get_state(new[0]) = STATE_NONE
            /\ DropRows(pre, c) # {} =>
                  LET k == Least(DropRows(pre, c))
                      L == val_get_tsize(old[k])
                  IN  /\ TailsSeen(pre, c, k) >= L => val_get_state(new[0]) = STATE_NONE
                      /\ (L < pre.rows /\ k < pre.rows - 1
                            /\ TailsAbove(pre, c, k) = Min(k, L)) =>
                            /\ val_get_state(new[k + 1]) = STATE_DROP
                            /\ val_get_tsize(new[k + 1]) = L
                            /\ Least(DropRows(mat, c)) = k + 1
                            /\ TailsAbove(mat, c, k + 1) = Min(k + 1, L)

\* a DROP of tail length TSIZE_MIN with TSIZE_MIN tail cells above it was
\* advanced from row TSIZE_MIN: no tail cell was added at row 0
C18_Witness ==
    /\ op = "mat_mov_col"
    /\ DropRows(pre, arg[1]) = {TSIZE_MIN}
    /\ val_get_tsize(Column(pre, arg[1])[TSIZE_MIN]) = TSIZE_MIN
    /\ TailsAbove(pre, arg[1], TSIZE_MIN) = TSIZE_MIN
    /\ TailsAbove(mat, arg[1], TSIZE_MIN + 1) = TSIZE_MIN
    /\ val_get_state(Column(mat, arg[1])[0]) = STATE_NONE

\* C19: every DROP travels one row per tick with its tail length unchanged:
\* a DROP of tail length L at row r < rows - 1 when mat_update starts is a
\* DROP of tail length L at row r + 1 when mat_update returns.
C19_DropTravelsOneRow ==
    [][(pc = "update" /\ pc' = "while" /\ Regular) =>
          \A row \in 0..(mat.rows - 2), col \in 0..(mat.cols - 1) :
              val_get_state(Column(mat, col)[row]) = STATE_DROP =>
                  /\ val_get_state(Column(mat', col)[row + 1]) = STATE_DROP
                  /\ val_get_tsize(Column(mat', col)[row + 1])
                        = val_get_tsize(Column(mat, col)[row])]_vars

\* C20: a stop signal is never lost: once on_signal has handled SIGINT,
\* SIGQUIT or SIGTERM, the test of the main loop starts no new tick.
C20_StopNeverLost ==
    [][(handled \in {SIGINT, SIGQUIT, SIGTERM} /\ pc = "while")
          => pc' # "if_resized"]_vars

====
